---- MODULE Spec2Model ----
(***************************************************************************)
(* Device emulation dispatch core of mythril_core: the range-keyed         *)
(* DeviceMap (device/mod.rs) and the PCI root complex (device/pci.rs).     *)
(*                                                                         *)
(* Spec     : a DeviceMap driven by register_device, device_for and        *)
(*            device_for_mut.                                              *)
(* SpecPci  : one PciRootComplex driven by on_port_read / on_port_write.   *)
(* SpecFn   : the conversions and comparisons applied to bounded inputs.   *)
(* SpecSys  : a DeviceMap holding a PciRootComplex and other devices, the  *)
(*            handlers being called on the device a lookup returns.        *)
(***************************************************************************)
EXTENDS Integers, Sequences, FiniteSets, TLC

(***************************************************************************)
(* Bounds of the model.                                                    *)
(***************************************************************************)
\* Ports are 0..MaxPort (Port = u16 in the source; only compared).
MaxPort == 2
\* Guest-physical addresses are 0..MaxMem (u64 in the source; only compared).
MaxMem == 1
\* At most MaxDeclared regions are declared, over all the devices registered.
MaxDeclared == 3
\* At most MaxCalls register_device calls are made.
MaxCalls == 2

VARIABLES
    portio_map,      \* DeviceMap.portio_map: the root node of the BTreeMap
    memio_map,       \* DeviceMap.memio_map:  the root node of the BTreeMap
    rc_count,        \* number of Rc allocations made (one per register_device)
    heap,            \* the devices behind the Rcs, by allocation number;
                     \* dropped once no Rc is left
    ret,             \* the last call on the DeviceMap: its input and return
    seen,            \* the regions declared by the devices passed so far
    inserted,        \* the regions the calls so far went past without conflict
    failures,        \* number of register_device calls that returned an error
    current_address, \* PciRootComplex.current_address (u32)
    devices,         \* PciRootComplex.devices: BDF (u16) -> PciDevice
    written,         \* bytes of the last successful 4-byte write to 0xCF8
    io               \* the last handler call on the PciRootComplex

vars == <<portio_map, memio_map, rc_count, heap, ret, seen, inserted,
          failures, current_address, devices, written, io>>

map_vars ==
    <<portio_map, memio_map, rc_count, heap, ret, seen, inserted, failures>>

pci_vars == <<current_address, devices, written, io>>

(***************************************************************************)
(* Option<T>                                                               *)
(***************************************************************************)
None == [tag |-> "None"]

Some(v) == [tag |-> "Some", val |-> v]

(***************************************************************************)
(* Range keys (mod.rs 29-69).  A RangeInclusive is [start, end].           *)
(***************************************************************************)
RangeInclusive(s, e) == [start |-> s, end |-> e]

\* Mutant: the ranges are ordered by their start alone.
PortIoRegion_cmp_by_start(self, other) ==
    IF self.start < other.start THEN "Less"
    ELSE IF other.start < self.start THEN "Greater"
    ELSE "Equal"

\* impl Ord for PortIoRegion
PortIoRegion_cmp(self, other) ==
    IF self.end < other.start THEN "Less"
    ELSE IF other.end < self.start THEN "Greater"
    ELSE "Equal"

\* Mutant: the ranges are ordered by their end alone.
MemIoRegion_cmp_by_end(self, other) ==
    IF self.end < other.end THEN "Less"
    ELSE IF other.end < self.end THEN "Greater"
    ELSE "Equal"

\* Mutant: a range ending where the other starts counts as below it.
MemIoRegion_cmp_touching(self, other) ==
    IF self.end <= other.start THEN "Less"
    ELSE IF other.end <= self.start THEN "Greater"
    ELSE "Equal"

\* impl Ord for MemIoRegion
MemIoRegion_cmp(self, other) ==
    IF self.end < other.start THEN "Less"
    ELSE IF other.end < self.start THEN "Greater"
    ELSE "Equal"

(***************************************************************************)
(* BTreeMap<K, V> (alloc::collections::btree).  A map is its root node;    *)
(* a node is [keys, edges]: keys the entries [key, dev] it holds, in key   *)
(* order, edges its children (none for a leaf, one more than keys          *)
(* otherwise).  The empty map is an empty leaf.  Indices named idx are     *)
(* counted from 0, as in the library.                                      *)
(***************************************************************************)
B == 6

CAPACITY == 2 * B - 1

KV_IDX_CENTER == B - 1

EDGE_IDX_LEFT_OF_CENTER == B - 1

EDGE_IDX_RIGHT_OF_CENTER == B

\* K: Ord, the key type of the map, selects the comparison.
Ord_cmp(K, self, other) ==
    IF K = "PortIoRegion" THEN PortIoRegion_cmp(self, other)
    ELSE MemIoRegion_cmp(self, other)

\* BTreeMap::new
BTreeMap_new == [keys |-> <<>>, edges |-> <<>>]

is_leaf(node) == node.edges = <<>>

\* BTreeMap::iter: the entries in key order.  iter_from lists the node
\* from its i-th edge and i-th key on.
RECURSIVE iter(_), iter_from(_, _)
iter(node) == IF is_leaf(node) THEN node.keys ELSE iter_from(node, 1)

iter_from(node, i) ==
    IF i > Len(node.edges) /\ i > Len(node.keys) THEN <<>>
    ELSE (IF i <= Len(node.edges) THEN iter(node.edges[i]) ELSE <<>>)
         \o (IF i <= Len(node.keys) THEN <<node.keys[i]>> ELSE <<>>)
         \o iter_from(node, i + 1)

\* BTreeMap::len
BTreeMap_len(map) == Len(iter(map))

\* search_node: the keys of one node are compared in order; the search
\* stops at the first key the probe is not Greater than.
search_node(node, key, K) ==
    LET stop == {i \in 1..Len(node.keys) :
                     Ord_cmp(K, key, node.keys[i].key) # "Greater"}
    IN  IF stop = {} THEN [found |-> FALSE, idx |-> Len(node.keys)]
        ELSE LET i == CHOOSE i \in stop : \A j \in stop : i <= j
             IN  [found |-> Ord_cmp(K, key, node.keys[i].key) = "Equal",
                  idx |-> i - 1]

\* The number of entries of a node that come before its edge idx.
entries_before(node, idx) ==
    IF is_leaf(node) THEN idx
    ELSE Len(iter([keys |-> SubSeq(node.keys, 1, idx),
                   edges |-> SubSeq(node.edges, 1, idx)]))

\* search_tree: from the root down, node by node.  found tells whether a
\* key comparing Equal was met; idx is the place in iter(map), counted
\* from 1, of that key, or of the entry the probe would become.
RECURSIVE search_tree(_, _, _)
search_tree(map, key, K) ==
    LET r == search_node(map, key, K)
    IN  IF is_leaf(map) THEN [found |-> r.found, idx |-> r.idx + 1]
        ELSE IF r.found
        THEN [found |-> TRUE,
              idx |-> entries_before(map, r.idx)
                      + BTreeMap_len(map.edges[r.idx + 1]) + 1]
        ELSE LET sub == search_tree(map.edges[r.idx + 1], key, K)
             IN  [found |-> sub.found,
                  idx |-> entries_before(map, r.idx) + sub.idx]

\* Mutant: the map is not searched, no key is ever reported.
contains_key_never(map, key, K) == FALSE

\* Mutant: only a stored key with the same bounds counts.
contains_key_exact(map, key, K) ==
    \E i \in 1..BTreeMap_len(map) : iter(map)[i].key = key

contains_key(map, key, K) == search_tree(map, key, K).found

get(map, key, K) ==
    LET r == search_tree(map, key, K)
    IN  IF r.found THEN Some(iter(map)[r.idx].dev) ELSE None

get_key_value(map, key, K) ==
    LET r == search_tree(map, key, K)
    IN  IF r.found THEN Some(iter(map)[r.idx].key) ELSE None

\* splitpoint: where a full node is split for an insertion at edge_idx,
\* and the half and place the insertion then goes to.
splitpoint(edge_idx) ==
    IF edge_idx < EDGE_IDX_LEFT_OF_CENTER
    THEN [middle_kv_idx |-> KV_IDX_CENTER - 1, side |-> "Left",
          idx |-> edge_idx]
    ELSE IF edge_idx = EDGE_IDX_LEFT_OF_CENTER
    THEN [middle_kv_idx |-> KV_IDX_CENTER, side |-> "Left", idx |-> edge_idx]
    ELSE IF edge_idx = EDGE_IDX_RIGHT_OF_CENTER
    THEN [middle_kv_idx |-> KV_IDX_CENTER, side |-> "Right", idx |-> 0]
    ELSE [middle_kv_idx |-> KV_IDX_CENTER + 1, side |-> "Right",
          idx |-> edge_idx - (KV_IDX_CENTER + 1 + 1)]

insert_at(s, i, x) == SubSeq(s, 1, i - 1) \o <<x>> \o SubSeq(s, i, Len(s))

\* Handle<_, Edge>::insert_fit: kv goes in at edge idx of a node with
\* room, edge (for an internal node) to the right of it.
insert_fit(node, idx, kv, edge) ==
    [keys |-> insert_at(node.keys, idx + 1, kv),
     edges |-> IF is_leaf(node) THEN <<>>
               ELSE insert_at(node.edges, idx + 2, edge)]

\* Handle<_, KV>::split: the node up to kv idx, that entry, and the rest.
split(node, idx) ==
    [left |-> [keys |-> SubSeq(node.keys, 1, idx),
               edges |-> IF is_leaf(node) THEN <<>>
                         ELSE SubSeq(node.edges, 1, idx + 1)],
     kv |-> node.keys[idx + 1],
     right |-> [keys |-> SubSeq(node.keys, idx + 2, Len(node.keys)),
                edges |-> IF is_leaf(node) THEN <<>>
                          ELSE SubSeq(node.edges, idx + 2,
                                      Len(node.edges))]]

\* Handle<_, Edge>::insert: into the node if it has room, otherwise into
\* one half of the node split.
edge_insert(node, idx, kv, edge) ==
    IF Len(node.keys) < CAPACITY
    THEN [split |-> FALSE, node |-> insert_fit(node, idx, kv, edge)]
    ELSE LET sp == splitpoint(idx)
             result == split(node, sp.middle_kv_idx)
         IN  IF sp.side = "Left"
             THEN [split |-> TRUE, kv |-> result.kv,
                   left |-> insert_fit(result.left, sp.idx, kv, edge),
                   right |-> result.right]
             ELSE [split |-> TRUE, kv |-> result.kv,
                   left |-> result.left,
                   right |-> insert_fit(result.right, sp.idx, kv, edge)]

\* insert_recursing: the entry goes into the leaf the search ends in, and
\* every split hands its middle entry and right half to the parent.  A key
\* comparing Equal to a stored key keeps the stored key and takes the new
\* value.
RECURSIVE insert_recursing(_, _, _, _)
insert_recursing(node, key, dev, K) ==
    LET r == search_node(node, key, K)
    IN  IF r.found
        THEN [split |-> FALSE,
              node |-> [node EXCEPT !.keys[r.idx + 1].dev = dev]]
        ELSE IF is_leaf(node)
        THEN edge_insert(node, r.idx, [key |-> key, dev |-> dev], <<>>)
        ELSE LET sub == insert_recursing(node.edges[r.idx + 1], key, dev, K)
             IN  IF ~sub.split
                 THEN [split |-> FALSE,
                       node |-> [node EXCEPT !.edges[r.idx + 1] = sub.node]]
                 ELSE edge_insert(
                          [node EXCEPT !.edges[r.idx + 1] = sub.left],
                          r.idx, sub.kv, sub.right)

\* Mutant: a new entry goes in after the last one of the root, whatever
\* its key.
insert_at_end(map, key, dev, K) ==
    [map EXCEPT !.keys = Append(@, [key |-> key, dev |-> dev])]

\* BTreeMap::insert: a split of the root puts a new root above its halves.
insert(map, key, dev, K) ==
    LET r == insert_recursing(map, key, dev, K)
    IN  IF r.split
        THEN [keys |-> <<r.kv>>, edges |-> <<r.left, r.right>>]
        ELSE r.node

(***************************************************************************)
(* DeviceMap::register_device (mod.rs 141-183).  services is the Vec of    *)
(* DeviceRegion the device declares, dev the Rc made for the device.       *)
(***************************************************************************)
RECURSIVE register_regions(_, _, _, _, _)
register_regions(services, i, pm, mm, dev) ==
    IF i > Len(services)
    THEN [portio_map |-> pm, memio_map |-> mm, result |-> "Ok",
          failed_at |-> 0, conflict |-> None]
    ELSE LET region == services[i]
             key == region.val
         IN  IF region.tag = "PortIo"
             THEN IF contains_key(pm, key, "PortIoRegion")
                  THEN [portio_map |-> pm, memio_map |-> mm,
                        result |-> "InvalidDevice", failed_at |-> i,
                        conflict |-> get_key_value(pm, key, "PortIoRegion")]
                  ELSE register_regions(services, i + 1,
                           insert(pm, key, dev, "PortIoRegion"), mm, dev)
             ELSE IF contains_key(mm, key, "MemIoRegion")
                  THEN [portio_map |-> pm, memio_map |-> mm,
                        result |-> "InvalidDevice", failed_at |-> i,
                        conflict |-> get_key_value(mm, key, "MemIoRegion")]
                  ELSE register_regions(services, i + 1, pm,
                           insert(mm, key, dev, "MemIoRegion"), dev)

\* Mutant: a conflict undoes the insertions the call has made.
register_device_rollback(pm, mm, services, dev) ==
    LET r == register_regions(services, 1, pm, mm, dev)
    IN  IF r.result = "Ok" THEN r
        ELSE [r EXCEPT !.portio_map = pm, !.memio_map = mm]

register_device(pm, mm, services, dev) ==
    register_regions(services, 1, pm, mm, dev)

(***************************************************************************)
(* DeviceInteraction::find_device / find_device_mut (mod.rs 84-116).       *)
(***************************************************************************)
find_device_u16(self, pm) ==
    LET range == RangeInclusive(self, self)
    IN  get(pm, range, "PortIoRegion")

\* Mutant: the probe range reaches one port too far.
find_device_mut_u16_wide(self, pm) ==
    LET range == RangeInclusive(self, self + 1)
    IN  get(pm, range, "PortIoRegion")

find_device_mut_u16(self, pm) ==
    LET range == RangeInclusive(self, self)
    IN  get(pm, range, "PortIoRegion")

find_device_GuestPhysAddr(self, mm) ==
    LET range == RangeInclusive(self, self)
    IN  get(mm, range, "MemIoRegion")

find_device_mut_GuestPhysAddr(self, mm) ==
    LET range == RangeInclusive(self, self)
    IN  get(mm, range, "MemIoRegion")

\* DeviceMap::device_for / device_for_mut: op is [space, at].
device_for(pm, mm, op) ==
    IF op.space = "PortIo" THEN find_device_u16(op.at, pm)
    ELSE find_device_GuestPhysAddr(op.at, mm)

device_for_mut(pm, mm, op) ==
    IF op.space = "PortIo" THEN find_device_mut_u16(op.at, pm)
    ELSE find_device_mut_GuestPhysAddr(op.at, mm)

(***************************************************************************)
(* Inputs of the DeviceMap operations.                                     *)
(***************************************************************************)
\* Declared ranges are inclusive ranges lo..=hi with lo <= hi.
Ranges(max) == {r \in [start : 0..max, end : 0..max] : r.start <= r.end}

DeviceRegions ==
    {[tag |-> "PortIo", val |-> r] : r \in Ranges(MaxPort)} \cup
    {[tag |-> "MemIo", val |-> r] : r \in Ranges(MaxMem)}

\* The Vec<DeviceRegion> a device's services() returns.
Services(n) == UNION {[1..k -> DeviceRegions] : k \in 0..n}

Interactions ==
    {[space |-> "PortIo", at |-> p] : p \in 0..MaxPort} \cup
    {[space |-> "MemIo", at |-> a] : a \in 0..MaxMem}

Overlap(r, s) == r.start <= s.end /\ s.start <= r.end

\* Two regions of the same address space that overlap.
RegionsOverlap(x, y) == x.tag = y.tag /\ Overlap(x.val, y.val)

\* Some two regions (at different positions) of the sequence overlap.
SeqOverlap(s) ==
    \E i, j \in 1..Len(s) : i # j /\ RegionsOverlap(s[i], s[j])

\* The positions of s whose region overlaps a region of base or an earlier
\* region of s.
Clashes(base, s) ==
    {i \in 1..Len(s) :
        \/ \E k \in 1..Len(base) : RegionsOverlap(base[k], s[i])
        \/ \E j \in 1..(i - 1) : RegionsOverlap(s[j], s[i])}

\* The regions of s before its first clashing position (all, if none).
Accepted(base, s) ==
    LET c == Clashes(base, s)
    IN  IF c = {} THEN s
        ELSE SubSeq(s, 1, (CHOOSE i \in c : \A j \in c : i <= j) - 1)

(***************************************************************************)
(* 32-bit unsigned integers.  A u32 is the record [hi, lo] of its two      *)
(* 16-bit halves, value hi * 2^16 + lo.                                    *)
(***************************************************************************)
U32(h, l) == [hi |-> h, lo |-> l]

RECURSIVE BitAnd(_, _)
BitAnd(a, b) ==
    IF a = 0 \/ b = 0 THEN 0
    ELSE (a % 2) * (b % 2) + 2 * BitAnd(a \div 2, b \div 2)

RECURSIVE BitOr(_, _)
BitOr(a, b) ==
    IF a = 0 THEN b
    ELSE IF b = 0 THEN a
    ELSE (IF a % 2 = 1 \/ b % 2 = 1 THEN 1 ELSE 0)
         + 2 * BitOr(a \div 2, b \div 2)

\* a & b
and_u32(a, b) == U32(BitAnd(a.hi, b.hi), BitAnd(a.lo, b.lo))

\* a | b
or_u32(a, b) == U32(BitOr(a.hi, b.hi), BitOr(a.lo, b.lo))

\* a >> n, for n in 0..31
shr_u32(a, n) ==
    IF n >= 16 THEN U32(0, a.hi \div (2 ^ (n - 16)))
    ELSE U32(a.hi \div (2 ^ n),
             (a.lo \div (2 ^ n)) + (a.hi % (2 ^ n)) * (2 ^ (16 - n)))

\* Mutant: the value is cut to 8 bits, not 16.
as_u16_low_byte(v) == v.lo % 256

\* v as u16, v as u8
as_u16(v) == v.lo

as_u8(v) == v.lo % 256

\* u32::from_be_bytes, u32::to_be_bytes
from_be_bytes(arr) == U32(arr[1] * 256 + arr[2], arr[3] * 256 + arr[4])

\* Mutant: the bytes come out least significant first.
to_be_bytes_reversed(v) ==
    <<v.lo % 256, v.lo \div 256, v.hi % 256, v.hi \div 256>>

to_be_bytes(v) ==
    <<v.hi \div 256, v.hi % 256, v.lo \div 256, v.lo % 256>>

(***************************************************************************)
(* Access-request values (mod.rs 231-396).  A PortReadRequest or a         *)
(* PortWriteRequest is the sequence of the 1, 2 or 4 bytes it borrows;     *)
(* its variant is its length.                                              *)
(***************************************************************************)
\* Mutant: the first len bytes of the encoding are copied, not the last.
copy_from_u32_head(self, val) ==
    LET arr == to_be_bytes(val)
        len == Len(self)
    IN  [i \in 1..len |-> arr[i]]

\* Mutant: the low len bytes are copied least significant first.
copy_from_u32_native(self, val) ==
    LET arr == to_be_bytes(val)
        len == Len(self)
    IN  [i \in 1..len |-> arr[5 - i]]

\* PortReadRequest::copy_from_u32: the buffer after the call
copy_from_u32(self, val) ==
    LET arr == to_be_bytes(val)
        len == Len(self)
    IN  [i \in 1..len |-> arr[4 - len + i]]

\* Mutant: a narrow value is put at the head of the array, not the tail.
as_u32_left_aligned(self) ==
    from_be_bytes([i \in 1..4 |-> IF i <= Len(self) THEN self[i] ELSE 0])

\* PortWriteRequest::as_u32
as_u32(self) ==
    LET arr == IF Len(self) = 1 THEN <<0, 0, 0, self[1]>>
               ELSE IF Len(self) = 2 THEN <<0, 0, self[1], self[2]>>
               ELSE self
    IN  from_be_bytes(arr)

\* u16::from_be_bytes
u16_from_be_bytes(arr) == arr[1] * 256 + arr[2]

\* impl TryInto<u8> for PortWriteRequest
try_into_u8(self) ==
    IF Len(self) = 1
    THEN [result |-> "Ok", val |-> self[1]]
    ELSE [result |-> "InvalidValue"]

\* Mutant: a wider request is cut to its last two bytes.
try_into_u16_truncating(self) ==
    IF Len(self) >= 2
    THEN [result |-> "Ok",
          val |-> u16_from_be_bytes(SubSeq(self, Len(self) - 1, Len(self)))]
    ELSE [result |-> "InvalidValue"]

\* impl TryInto<u16> for PortWriteRequest
try_into_u16(self) ==
    IF Len(self) = 2
    THEN [result |-> "Ok", val |-> u16_from_be_bytes(self)]
    ELSE [result |-> "InvalidValue"]

\* impl TryInto<u8> for MemWriteRequest; self.data is the borrowed slice
MemWriteRequest_try_into_u8(self) ==
    IF Len(self.data) = 1
    THEN [result |-> "Ok", val |-> self.data[1]]
    ELSE [result |-> "InvalidValue"]

\* MemWriteRequest::new
MemWriteRequest_new(data) == [data |-> data]

\* buff.as_ptr() as *const [u8; n]: the first n bytes of the slice
as_array(buff, n) == SubSeq(buff, 1, n)

\* impl TryFrom<&mut [u8]> for PortReadRequest
PortReadRequest_try_from(buff) ==
    IF Len(buff) = 1 THEN [result |-> "Ok", val |-> as_array(buff, 1)]
    ELSE IF Len(buff) = 2 THEN [result |-> "Ok", val |-> as_array(buff, 2)]
    ELSE IF Len(buff) = 4 THEN [result |-> "Ok", val |-> as_array(buff, 4)]
    ELSE [result |-> "InvalidValue"]

\* Mutant: a slice of three bytes is taken as a two-byte request.
PortWriteRequest_try_from_three(buff) ==
    IF Len(buff) = 1 THEN [result |-> "Ok", val |-> as_array(buff, 1)]
    ELSE IF Len(buff) \in {2, 3}
    THEN [result |-> "Ok", val |-> as_array(buff, 2)]
    ELSE IF Len(buff) = 4 THEN [result |-> "Ok", val |-> as_array(buff, 4)]
    ELSE [result |-> "InvalidValue"]

\* impl TryFrom<&[u8]> for PortWriteRequest
PortWriteRequest_try_from(buff) ==
    IF Len(buff) = 1 THEN [result |-> "Ok", val |-> as_array(buff, 1)]
    ELSE IF Len(buff) = 2 THEN [result |-> "Ok", val |-> as_array(buff, 2)]
    ELSE IF Len(buff) = 4 THEN [result |-> "Ok", val |-> as_array(buff, 4)]
    ELSE [result |-> "InvalidValue"]

\* Mutant: a narrow request is widened (as as_u32 does), not refused.
try_into_u32_widening(self) ==
    LET len == Len(self)
    IN  [result |-> "Ok",
         val |-> from_be_bytes([i \in 1..4 |->
                     IF i <= 4 - len THEN 0 ELSE self[i - (4 - len)]])]

\* impl TryInto<u32> for PortWriteRequest
try_into_u32(self) ==
    IF Len(self) = 4
    THEN [result |-> "Ok", val |-> from_be_bytes(self)]
    ELSE [result |-> "InvalidValue"]

(***************************************************************************)
(* trait EmulatedDevice (mod.rs 186-229): the handlers a device inherits   *)
(* when it does not override them.  Each gives the return, the device      *)
(* after the call and, for a read, the payload buffer after the call.      *)
(***************************************************************************)
\* MemReadRequest::new
MemReadRequest_new(data) == [data |-> data]

\* Mutant: the buffer is cleared before the call is refused.
EmulatedDevice_on_mem_read_zeroing(self, addr, data) ==
    [result |-> "NotImplemented", self |-> self,
     data |-> [data |-> [i \in 1..Len(data.data) |-> 0]]]

EmulatedDevice_on_mem_read(self, addr, data) ==
    [result |-> "NotImplemented", self |-> self, data |-> data]

EmulatedDevice_on_mem_write(self, addr, data) ==
    [result |-> "NotImplemented", self |-> self]

EmulatedDevice_on_port_read(self, port, val) ==
    [result |-> "NotImplemented", self |-> self, val |-> val]

EmulatedDevice_on_port_write(self, port, val) ==
    [result |-> "NotImplemented", self |-> self]

\* DummyDevice::new (mod.rs 497-515): a device that overrides no handler
DummyDevice_new(services) == [services |-> services]

\* DummyDevice::services (mod.rs 508-513): every port range the device
\* holds, as a PortIo region.
DummyDevice_services(self) ==
    [i \in 1..Len(self.services) |->
        [tag |-> "PortIo", val |-> self.services[i]]]

(***************************************************************************)
(* PCI configuration spaces (pci.rs 13-146).                               *)
(***************************************************************************)
VendorId_Intel == 32902

DeviceId_P35Mch == 10688

DeviceId_Ich9 == 10520

\* PciNonBridgeHeader { vendor_id, device_id, ..Default::default() }: the
\* other fields of the header are zero and nothing writes them.
PciNonBridgeHeader(vendor_id, device_id) ==
    [vendor_id |-> vendor_id, device_id |-> device_id]

\* PciNonBridgeSpace::new
PciNonBridgeSpace_new(header) == [header |-> header]

\* The 256 bytes of a packed PciNonBridgeSpace, fields little-endian:
\* vendor_id at 0..1, device_id at 2..3, then zeroes (_data included).
space_bytes(space) ==
    [k \in 0..255 |->
        IF k = 0 THEN space.header.vendor_id % 256
        ELSE IF k = 1 THEN space.header.vendor_id \div 256
        ELSE IF k = 2 THEN space.header.device_id % 256
        ELSE IF k = 3 THEN space.header.device_id \div 256
        ELSE 0]

\* PciConfigSpace::as_registers: the bytes viewed as [u32; 64]
as_registers(self) ==
    LET b == space_bytes(self)
    IN  [r \in 0..63 |->
            U32(b[4 * r + 3] * 256 + b[4 * r + 2],
                b[4 * r + 1] * 256 + b[4 * r])]

\* PciConfigSpace::read_register
read_register(self, register) == as_registers(self)[register]

\* Mutant: the mask of the function number is one bit too wide.
PciBdf_from_wide_function(bytes) ==
    [bus |-> BitAnd(bytes, 65280) \div 256,
     device |-> BitAnd(bytes, 248) \div 8,
     function |-> BitAnd(bytes, 15)]

\* impl From<u16> for PciBdf
PciBdf_from(bytes) ==
    [bus |-> BitAnd(bytes, 65280) \div 256,
     device |-> BitAnd(bytes, 248) \div 8,
     function |-> BitAnd(bytes, 7)]

\* Mutant: the device number is shifted one bit too far.
PciBdf_into_shifted(self) ==
    BitOr(BitOr(self.bus * 256, self.device * 16), self.function)

\* impl Into<u16> for PciBdf
PciBdf_into(self) ==
    BitOr(BitOr(self.bus * 256, self.device * 8), self.function)

(***************************************************************************)
(* PciRootComplex (pci.rs 148-267).                                        *)
(***************************************************************************)
PCI_CONFIG_ADDRESS == 3320

PCI_CONFIG_DATA == 3324

\* Mutant: the data window is one port too long.
PCI_CONFIG_DATA_MAX_wide == PCI_CONFIG_DATA + 4

PCI_CONFIG_DATA_MAX == PCI_CONFIG_DATA + 3

\* PciRootComplex::new
PciRootComplex_new ==
    LET host_bridge ==
            [bdf |-> PciBdf_from(0),
             config_space |-> PciNonBridgeSpace_new(
                 PciNonBridgeHeader(VendorId_Intel, DeviceId_P35Mch))]
        ich9 ==
            [bdf |-> PciBdf_from(8),
             config_space |-> PciNonBridgeSpace_new(
                 PciNonBridgeHeader(VendorId_Intel, DeviceId_Ich9))]
        key(d) == PciBdf_into(d.bdf)
    IN  [current_address |-> U32(0, 0),
         devices |-> [k \in {key(host_bridge), key(ich9)} |->
                         IF k = key(ich9) THEN ich9 ELSE host_bridge]]

\* PciRootComplex::services
PciRootComplex_services ==
    <<[tag |-> "PortIo",
       val |-> RangeInclusive(PCI_CONFIG_ADDRESS, PCI_CONFIG_ADDRESS)],
      [tag |-> "PortIo",
       val |-> RangeInclusive(PCI_CONFIG_DATA, PCI_CONFIG_DATA_MAX)]>>

\* PciRootComplex::on_port_read: the return and the buffer after the call
on_port_read(self, port, val) ==
    IF port = PCI_CONFIG_ADDRESS
    THEN LET addr == or_u32(U32(32768, 0), self.current_address)
         IN  [result |-> "Ok", val |-> copy_from_u32(val, addr)]
    ELSE IF port >= PCI_CONFIG_DATA /\ port <= PCI_CONFIG_DATA_MAX
    THEN LET bdf == as_u16(shr_u32(
                        and_u32(self.current_address, U32(255, 65280)), 8))
             \* current_address & 0xff >> 2: the shift binds tighter
             register == as_u8(and_u32(self.current_address,
                                       shr_u32(U32(0, 255), 2)))
             offset == port - PCI_CONFIG_DATA
         IN  IF bdf \in DOMAIN self.devices
             THEN LET res == shr_u32(
                          read_register(self.devices[bdf].config_space,
                                        register),
                          offset * 8)
                  IN  [result |-> "Ok", val |-> copy_from_u32(val, res)]
             ELSE LET res == U32(65535, 65535)
                  IN  [result |-> "Ok", val |-> copy_from_u32(val, res)]
    ELSE [result |-> "InvalidValue", val |-> val]

\* Mutant: the port is not looked at, every write is an address write.
on_port_write_any_port(self, port, val) ==
    LET addr == try_into_u32(val)
    IN  IF addr.result = "Ok"
        THEN [result |-> "Ok",
              current_address |-> and_u32(addr.val, U32(32767, 65535))]
        ELSE [result |-> "Ok", current_address |-> self.current_address]

\* PciRootComplex::on_port_write: the return and current_address after it
on_port_write(self, port, val) ==
    IF port = PCI_CONFIG_ADDRESS
    THEN LET addr == try_into_u32(val)
         IN  IF addr.result = "Ok"
             THEN [result |-> "Ok",
                   current_address |-> and_u32(addr.val, U32(32767, 65535))]
             ELSE [result |-> addr.result,
                   current_address |-> self.current_address]
    ELSE [result |-> "Ok", current_address |-> self.current_address]

(***************************************************************************)
(* Box<dyn EmulatedDevice>: the device with the table of its methods.  A   *)
(* method the device's impl does not define is the default of the trait.  *)
(***************************************************************************)
Box(vtable, obj) == [vtable |-> vtable, obj |-> obj]

\* An implementor of EmulatedDevice that only defines services (mod.rs
\* 187) and answers with the regions it was built with, of either space;
\* its handlers are the defaults of the trait.
EmulatedDevice_declaring(services) ==
    Box("EmulatedDevice", [services |-> services])

\* dev.services()
dyn_services(dev) ==
    IF dev.vtable = "PciRootComplex" THEN PciRootComplex_services
    ELSE IF dev.vtable = "DummyDevice" THEN DummyDevice_services(dev.obj)
    ELSE dev.obj.services

\* dev.on_port_read(port, val, space): the return, the buffer and the
\* device after the call
dyn_on_port_read(dev, port, val) ==
    IF dev.vtable = "PciRootComplex"
    THEN LET r == on_port_read(dev.obj, port, val)
         IN  [result |-> r.result, self |-> dev.obj, val |-> r.val]
    ELSE EmulatedDevice_on_port_read(dev.obj, port, val)

\* dev.on_port_write(port, val, space): the return and the device after
\* the call
dyn_on_port_write(dev, port, val) ==
    IF dev.vtable = "PciRootComplex"
    THEN LET r == on_port_write(dev.obj, port, val)
         IN  [result |-> r.result,
              self |-> [dev.obj EXCEPT
                            !.current_address = r.current_address]]
    ELSE EmulatedDevice_on_port_write(dev.obj, port, val)

(***************************************************************************)
(* Inputs of the PciRootComplex handlers.                                  *)
(***************************************************************************)
\* Ports a handler is called with: the claimed ones and their neighbours.
PciPorts ==
    {PCI_CONFIG_ADDRESS - 1, PCI_CONFIG_ADDRESS} \cup
    PCI_CONFIG_DATA..(PCI_CONFIG_DATA + 4)

\* Guest-physical addresses a memory handler is called with.
MemAddrs == {0, PCI_CONFIG_ADDRESS}

\* Memory payloads: 1 or 4 bytes, all 0x00 or all 0xAA.
MemBuffers == {[i \in 1..n |-> f] : n \in {1, 4}, f \in {0, 170}}

\* The device of the tests that overrides no handler, and the ports its
\* handlers are called with.
Dummy == DummyDevice_new(<<RangeInclusive(0, 0)>>)

DummyPorts == {0, PCI_CONFIG_ADDRESS}

Widths == {1, 2, 4}

\* A read buffer arrives filled with zeroes or with 0xAA.
ReadBuffers == {[i \in 1..w |-> f] : w \in Widths, f \in {0, 170}}

\* 4-byte values written to CONFIG_ADDRESS, by field: enable/reserved byte,
\* bus, device/function, register byte.
AddressWrites ==
    {<<e, b, d, r>> : e \in {0, 128}, b \in {0, 1}, d \in {0, 8, 9},
                      r \in {0, 1, 64}}

\* Other payloads: 1, 2 or 4 bytes, all 0x00 or all 0xFF.
PlainWrites == {[i \in 1..w |-> f] : w \in Widths, f \in {0, 255}}

WritesTo(port) ==
    IF port = PCI_CONFIG_ADDRESS THEN AddressWrites \cup PlainWrites
    ELSE PlainWrites

InitPci ==
    /\ current_address = PciRootComplex_new.current_address
    /\ devices = PciRootComplex_new.devices
    /\ written = <<0, 0, 0, 0>>
    /\ io = [op |-> "new"]

InitMap ==
    /\ portio_map = BTreeMap_new
    /\ memio_map = BTreeMap_new
    /\ rc_count = 0
    /\ heap = <<>>
    /\ ret = [op |-> "default"]
    /\ seen = <<>>
    /\ inserted = <<>>
    /\ failures = 0

Init == InitMap /\ InitPci

(***************************************************************************)
(* Actions of the DeviceMap.                                               *)
(***************************************************************************)
\* register_device(boxed): the Rc made for the device is the next
\* allocation.
\* Rc::strong_count of allocation dev once the Rc that register_device
\* made (mod.rs 146) is gone: the clones stored in the maps (mod.rs 163,
\* 179).
strong_count(pm, mm, dev) ==
    Cardinality({i \in 1..BTreeMap_len(pm) : iter(pm)[i].dev = dev})
        + Cardinality({i \in 1..BTreeMap_len(mm) : iter(mm)[i].dev = dev})

\* What is left of an allocation whose last Rc was dropped.
dropped == [vtable |-> "dropped"]

\* register_device returns and its own Rc is dropped: the device lives on
\* only if a key of the maps holds a clone, so a device that declared no
\* region, or whose first region conflicted, is destroyed.
Register(boxed) ==
    LET services == dyn_services(boxed)
        dev == rc_count + 1
        r == register_device(portio_map, memio_map, services, dev)
    IN     /\ rc_count' = dev
           /\ heap' = Append(heap,
                  IF strong_count(r.portio_map, r.memio_map, dev) = 0
                  THEN dropped ELSE boxed)
           /\ portio_map' = r.portio_map
           /\ memio_map' = r.memio_map
           /\ ret' = [op |-> "register_device", services |-> services,
                      dev |-> dev, result |-> r.result,
                      failed_at |-> r.failed_at, conflict |-> r.conflict,
                      before |-> [portio_map |-> portio_map,
                                  memio_map |-> memio_map,
                                  seen |-> seen, inserted |-> inserted,
                                  failures |-> failures]]
           /\ seen' = seen \o services
           /\ inserted' = inserted \o Accepted(inserted, services)
           /\ failures' = IF r.result = "Ok" THEN failures ELSE failures + 1

RegisterDevice(services) ==
    /\ rc_count < MaxCalls
    /\ Register(EmulatedDevice_declaring(services))
    /\ UNCHANGED pci_vars

DeviceFor(op) ==
    /\ ret' = [op |-> "device_for", at |-> op,
               dev |-> device_for(portio_map, memio_map, op)]
    /\ UNCHANGED <<portio_map, memio_map, rc_count, heap, seen, inserted,
                   failures, pci_vars>>

DeviceForMut(op) ==
    /\ ret' = [op |-> "device_for_mut", at |-> op,
               dev |-> device_for_mut(portio_map, memio_map, op)]
    /\ UNCHANGED <<portio_map, memio_map, rc_count, heap, seen, inserted,
                   failures, pci_vars>>

Next ==
    \/ \E services \in Services(MaxDeclared - Len(seen)) :
           RegisterDevice(services)
    \/ \E op \in Interactions : DeviceFor(op)
    \/ \E op \in Interactions : DeviceForMut(op)

Spec == Init /\ [][Next]_vars

(***************************************************************************)
(* Properties of the DeviceMap (checked under Spec).                       *)
(***************************************************************************)
\* The entries of a map, as a set.
Entries(map) == {iter(map)[i] : i \in 1..BTreeMap_len(map)}

\* The keys of the two maps, as a sequence of regions.
StoredRegions(pm, mm) ==
    [i \in 1..BTreeMap_len(pm) |->
        [tag |-> "PortIo", val |-> iter(pm)[i].key]] \o
    [i \in 1..BTreeMap_len(mm) |->
        [tag |-> "MemIo", val |-> iter(mm)[i].key]]

MapOf(space) == IF space = "PortIo" THEN portio_map ELSE memio_map

\* The positions of the stored keys that contain x.
Holders(map, x) ==
    {i \in 1..BTreeMap_len(map) :
         iter(map)[i].key.start <= x /\ x <= iter(map)[i].key.end}

\* The device stored under the key that contains op.at, if there is one.
Resolved(op) ==
    LET map == MapOf(op.space)
        h == Holders(map, op.at)
    IN  IF h = {} THEN None ELSE Some(iter(map)[CHOOSE i \in h : TRUE].dev)

Registered == ret.op = "register_device"

\* C1: after any sequence of register_device calls, successful or failed,
\* no two keys of portio_map overlap and no two keys of memio_map overlap.
C1_NoOverlappingKeys ==
    /\ \A i, j \in 1..BTreeMap_len(portio_map) :
           i # j => ~Overlap(iter(portio_map)[i].key,
                             iter(portio_map)[j].key)
    /\ \A i, j \in 1..BTreeMap_len(memio_map) :
           i # j => ~Overlap(iter(memio_map)[i].key,
                             iter(memio_map)[j].key)

\* C1 witness: a call has just failed on a map that holds two port keys.
C1_Witness ==
    /\ Registered
    /\ ret.result = "InvalidDevice"
    /\ BTreeMap_len(portio_map) >= 2

\* C2: for every port and address at most one stored key contains it, and
\* device_for and device_for_mut both return the device stored under that
\* key, and None when no stored key contains it.
C2_LookupReturnsHolder ==
    /\ \A op \in Interactions :
           /\ Cardinality(Holders(MapOf(op.space), op.at)) <= 1
           /\ device_for(portio_map, memio_map, op) = Resolved(op)
           /\ device_for_mut(portio_map, memio_map, op) = Resolved(op)
    /\ ret.op \in {"device_for", "device_for_mut"} =>
           ret.dev = Resolved(ret.at)

\* C2 witness: device_for_mut has returned None for the port right after
\* the end of a stored range, on a map that holds a second range.
C2_Witness ==
    /\ ret.op = "device_for_mut"
    /\ ret.at.space = "PortIo"
    /\ ret.dev = None
    /\ BTreeMap_len(portio_map) >= 2
    /\ \E i \in 1..BTreeMap_len(portio_map) :
           iter(portio_map)[i].key.end + 1 = ret.at.at

\* C3: register_device returns InvalidDevice iff some region of the device
\* overlaps a key stored when it is reached (a key of an earlier device or
\* an earlier region of the same device), the failing region being the
\* first such; a call without conflict returns Ok and has stored every
\* declared region under the new device.
C3_ConflictIffOverlap ==
    Registered =>
        LET s == ret.services
            c == Clashes(StoredRegions(ret.before.portio_map,
                                       ret.before.memio_map), s)
        IN  /\ ret.result \in {"Ok", "InvalidDevice"}
            /\ ret.result = "InvalidDevice" <=> c # {}
            /\ ret.result = "InvalidDevice" =>
                   /\ ret.failed_at \in c
                   /\ \A i \in c : ret.failed_at <= i
            /\ ret.result = "Ok" =>
                   \A i \in 1..Len(s) :
                       [key |-> s[i].val, dev |-> ret.dev]
                           \in Entries(MapOf(s[i].tag))

\* C3 witness: a call has failed on a region that overlaps two stored keys
\* at once.
C3_Witness ==
    /\ Registered
    /\ ret.result = "InvalidDevice"
    /\ LET r == ret.services[ret.failed_at]
           b == StoredRegions(ret.before.portio_map, ret.before.memio_map)
       IN  \E i, j \in 1..Len(b) :
               i # j /\ RegionsOverlap(b[i], r) /\ RegionsOverlap(b[j], r)

\* C4 as stated: a call succeeds iff no two regions overlap among all the
\* regions seen so far (those of the earlier calls and of this one).
C4_SucceedsIffSeenDisjoint ==
    Registered => (ret.result = "Ok" <=> ~SeqOverlap(seen))

\* C4 amended: a call succeeds iff no two regions overlap among the regions
\* the earlier calls inserted (all regions of a call that succeeded, the
\* regions before the conflict of a call that failed) and the regions of
\* the device being registered; as long as no earlier call failed, the
\* inserted regions are all the regions seen.
C4_SucceedsIffInsertedDisjoint ==
    Registered =>
        /\ ret.result = "Ok" <=>
               ~SeqOverlap(ret.before.inserted \o ret.services)
        /\ ret.before.failures = 0 => ret.before.inserted = ret.before.seen

\* C4 witness: a call has succeeded although two of the regions seen so far
\* overlap.
C4_Witness ==
    /\ Registered
    /\ ret.result = "Ok"
    /\ ret.services # <<>>
    /\ SeqOverlap(seen)

\* C5: when register_device fails on its k-th region, the maps are the maps
\* before the call plus the first k-1 regions of the device, each stored
\* under the new device and resolved to it by device_for; nothing else is
\* inserted, removed or changed.
C5_NoRollback ==
    (Registered /\ ret.result = "InvalidDevice") =>
        LET s == ret.services
            k == ret.failed_at
            head(tag) == {i \in 1..(k - 1) : s[i].tag = tag}
            new(tag) == {[key |-> s[i].val, dev |-> ret.dev] : i \in head(tag)}
        IN  /\ k \in 1..Len(s)
            /\ Entries(portio_map) =
                   Entries(ret.before.portio_map) \cup new("PortIo")
            /\ Entries(memio_map) =
                   Entries(ret.before.memio_map) \cup new("MemIo")
            /\ BTreeMap_len(portio_map) =
                   BTreeMap_len(ret.before.portio_map)
                       + Cardinality(head("PortIo"))
            /\ BTreeMap_len(memio_map) =
                   BTreeMap_len(ret.before.memio_map)
                       + Cardinality(head("MemIo"))
            /\ \A i \in 1..(k - 1) : \A x \in s[i].val.start..s[i].val.end :
                   device_for(portio_map, memio_map,
                              [space |-> s[i].tag, at |-> x]) = Some(ret.dev)

\* C5 witness: a call has failed on its second or a later region, on a map
\* that already held a key of an earlier device.
C5_Witness ==
    /\ Registered
    /\ ret.result = "InvalidDevice"
    /\ ret.failed_at >= 2
    /\ BTreeMap_len(ret.before.portio_map)
           + BTreeMap_len(ret.before.memio_map) >= 1

\* The positions of the keys of a map that lead to device dev.
KeysOf(map, dev) == {i \in 1..BTreeMap_len(map) : iter(map)[i].dev = dev}

\* C20 as stated: every registered device is reachable from at most two
\* map keys.
C20_AtMostTwoKeys ==
    \A dev \in 1..rc_count :
        Cardinality(KeysOf(portio_map, dev))
            + Cardinality(KeysOf(memio_map, dev)) <= 2

\* C20 amended: every key leads to a registered device, and a device is
\* reachable from the keys of at most two maps, the port map and the
\* memory map; its keys are the regions register_device inserted for it
\* (all it declared if the call succeeded, those before the conflict if
\* it failed), one key per region and each resolved to it by device_for,
\* so that it has as many keys as regions inserted, which can be more
\* than two and more than one in either map.
C20_KeysAreInsertedRegions ==
    /\ \A e \in Entries(portio_map) \cup Entries(memio_map) :
           e.dev \in 1..rc_count
    /\ BTreeMap_len(portio_map) + BTreeMap_len(memio_map) = Len(inserted)
    /\ Registered =>
           LET s == ret.services
               n == IF ret.result = "Ok" THEN Len(s) ELSE ret.failed_at - 1
               of(tag) == {i \in 1..n : s[i].tag = tag}
               keys(map) == {iter(map)[i].key : i \in KeysOf(map, ret.dev)}
           IN  /\ keys(portio_map) = {s[i].val : i \in of("PortIo")}
               /\ keys(memio_map) = {s[i].val : i \in of("MemIo")}
               /\ Cardinality(KeysOf(portio_map, ret.dev))
                      = Cardinality(of("PortIo"))
               /\ Cardinality(KeysOf(memio_map, ret.dev))
                      = Cardinality(of("MemIo"))
               /\ \A i \in 1..n : \A x \in s[i].val.start..s[i].val.end :
                      device_for(portio_map, memio_map,
                                 [space |-> s[i].tag, at |-> x])
                          = Some(ret.dev)

\* C20 witness: a device registered with success is reachable from three
\* keys of the port map.
C20_Witness ==
    /\ Registered
    /\ ret.result = "Ok"
    /\ Cardinality(KeysOf(portio_map, ret.dev)) = 3

(***************************************************************************)
(* Actions of the PciRootComplex.                                          *)
(***************************************************************************)
Complex == [current_address |-> current_address, devices |-> devices]

\* Mutant: a read of the address port keeps the enable bit it reports.
PortRead_keeping_enable(port, buf) ==
    /\ LET r == on_port_read(Complex, port, buf)
       IN  io' = [op |-> "on_port_read", port |-> port, arg |-> buf,
                  result |-> r.result, val |-> r.val]
    /\ current_address' =
           IF port = PCI_CONFIG_ADDRESS
           THEN or_u32(U32(32768, 0), current_address)
           ELSE current_address
    /\ UNCHANGED <<devices, written, map_vars>>

PortRead(port, buf) ==
    /\ LET r == on_port_read(Complex, port, buf)
       IN  io' = [op |-> "on_port_read", port |-> port, arg |-> buf,
                  result |-> r.result, val |-> r.val]
    /\ UNCHANGED <<current_address, devices, written, map_vars>>

PortWrite(port, val) ==
    /\ LET r == on_port_write(Complex, port, val)
       IN  /\ current_address' = r.current_address
           /\ written' = IF port = PCI_CONFIG_ADDRESS /\ r.result = "Ok"
                            /\ Len(val) = 4
                         THEN val ELSE written
           /\ io' = [op |-> "on_port_write", port |-> port, arg |-> val,
                     result |-> r.result, val |-> val]
    /\ UNCHANGED <<devices, map_vars>>

\* PciRootComplex does not override on_mem_read and on_mem_write.
MemRead(addr, data) ==
    /\ LET r == EmulatedDevice_on_mem_read(Complex, addr,
                                            MemReadRequest_new(data))
       IN  /\ current_address' = r.self.current_address
           /\ devices' = r.self.devices
           /\ io' = [op |-> "on_mem_read", port |-> addr, arg |-> data,
                     result |-> r.result, val |-> r.data.data]
    /\ UNCHANGED <<written, map_vars>>

MemWrite(addr, data) ==
    /\ LET r == EmulatedDevice_on_mem_write(Complex, addr,
                                             MemWriteRequest_new(data))
       IN  /\ current_address' = r.self.current_address
           /\ devices' = r.self.devices
           /\ io' = [op |-> "on_mem_write", port |-> addr, arg |-> data,
                     result |-> r.result, val |-> data]
    /\ UNCHANGED <<written, map_vars>>

\* DummyDevice overrides no handler at all; io keeps the device before
\* and after the call.
DummyPortRead(port, buf) ==
    /\ LET r == EmulatedDevice_on_port_read(Dummy, port, buf)
       IN  io' = [op |-> "dummy_on_port_read", port |-> port, arg |-> buf,
                  result |-> r.result, val |-> r.val,
                  self |-> Dummy, after |-> r.self]
    /\ UNCHANGED <<current_address, devices, written, map_vars>>

DummyPortWrite(port, val) ==
    /\ LET r == EmulatedDevice_on_port_write(Dummy, port, val)
       IN  io' = [op |-> "dummy_on_port_write", port |-> port, arg |-> val,
                  result |-> r.result, val |-> val,
                  self |-> Dummy, after |-> r.self]
    /\ UNCHANGED <<current_address, devices, written, map_vars>>

NextPci ==
    \/ \E port \in PciPorts, buf \in ReadBuffers : PortRead(port, buf)
    \/ \E port \in PciPorts : \E val \in WritesTo(port) : PortWrite(port, val)
    \/ \E addr \in MemAddrs, data \in MemBuffers : MemRead(addr, data)
    \/ \E addr \in MemAddrs, data \in MemBuffers : MemWrite(addr, data)
    \/ \E port \in DummyPorts, buf \in ReadBuffers : DummyPortRead(port, buf)
    \/ \E port \in DummyPorts, val \in PlainWrites : DummyPortWrite(port, val)

SpecPci == Init /\ [][NextPci]_vars

(***************************************************************************)
(* Properties of the PciRootComplex (checked under SpecPci).               *)
(***************************************************************************)
\* Byte k of current_address, k = 0 the least significant.
AddrByte(k) ==
    IF k = 0 THEN current_address.lo % 256
    ELSE IF k = 1 THEN current_address.lo \div 256
    ELSE IF k = 2 THEN current_address.hi % 256
    ELSE current_address.hi \div 256

\* Bits 23:8 of current_address.
AddressedBdf == AddrByte(2) * 256 + AddrByte(1)

\* The register index on_port_read uses: current_address & 0x3f.
SelectedRegister == AddrByte(0) % 64

\* The last handler call was a read of the data window.
DataRead ==
    /\ io.op = "on_port_read"
    /\ io.port \in PCI_CONFIG_DATA..PCI_CONFIG_DATA_MAX

\* The w bytes, most significant first, of (R >> 8 * o) mod 2^(8 * w),
\* where R is register reg of the space: byte lanes o .. o + w - 1 of the
\* register, the lanes above 3 being zero.
Lanes(space, reg, o, w) ==
    [i \in 1..w |->
        LET k == o + w - i
        IN  IF k <= 3 THEN space_bytes(space)[4 * reg + k] ELSE 0]

\* C6: a read of 0xCF8 returns the low bytes of 0x8000_0000 | (v &
\* 0x7FFF_FFFF), big-endian, v being the last 4-byte value written to
\* 0xCF8 with success (0 if none); current_address is v with bit 31 clear.
C6_AddressReadback ==
    LET full == <<128 + (written[1] % 128), written[2], written[3],
                  written[4]>>
    IN  /\ current_address.hi < 32768
        /\ current_address.hi = (written[1] % 128) * 256 + written[2]
        /\ current_address.lo = written[3] * 256 + written[4]
        /\ (io.op = "on_port_read" /\ io.port = PCI_CONFIG_ADDRESS) =>
               /\ io.result = "Ok"
               /\ io.val = [i \in 1..Len(io.arg) |-> full[4 - Len(io.arg) + i]]

\* C6 witness: a 4-byte read of 0xCF8 shows bit 31 set after a non-zero
\* value with bit 31 clear was written.
C6_Witness ==
    /\ io.op = "on_port_read"
    /\ io.port = PCI_CONFIG_ADDRESS
    /\ Len(io.val) = 4
    /\ written[1] < 128
    /\ written # <<0, 0, 0, 0>>
    /\ io.val[1] >= 128

\* C7: a 1- or 2-byte write to 0xCF8 fails with InvalidValue and changes
\* neither current_address nor the device table (what later reads depend
\* on).
C7_NarrowAddressWriteRejected ==
    [][(/\ io'.op = "on_port_write"
        /\ io'.port = PCI_CONFIG_ADDRESS
        /\ Len(io'.arg) \in {1, 2})
       => (/\ io'.result = "InvalidValue"
           /\ current_address' = current_address
           /\ devices' = devices)]_vars

\* C7 witness: a 2-byte write to 0xCF8 was refused while current_address
\* held a value written earlier.
C7_Witness ==
    /\ io.op = "on_port_write"
    /\ io.port = PCI_CONFIG_ADDRESS
    /\ Len(io.arg) = 2
    /\ io.result = "InvalidValue"
    /\ current_address # U32(0, 0)

\* C8 as stated: a read of the data window with a present BDF reads the
\* register of index ((current_address & 0xFF) >> 2) & 0x3F.
C8_RegisterFromBits7to2 ==
    (DataRead /\ AddressedBdf \in DOMAIN devices) =>
        io.val = Lanes(devices[AddressedBdf].config_space,
                       (AddrByte(0) \div 4) % 64,
                       io.port - PCI_CONFIG_DATA, Len(io.arg))

\* C9: for a present BDF whose selected register holds R, a read of width
\* w at 0xCFC + o returns the big-endian bytes of (R >> 8 * o) mod
\* 2^(8 * w); with current_address = 0 the 2-byte reads at 0xCFC and 0xCFE
\* give 80 86 and 29 c0, the 1-byte reads at 0xCFC..0xCFF 86, 80, c0, 29.
C9_ByteLanes ==
    (DataRead /\ AddressedBdf \in DOMAIN devices) =>
        LET o == io.port - PCI_CONFIG_DATA
            w == Len(io.arg)
        IN  /\ io.result = "Ok"
            /\ io.val = Lanes(devices[AddressedBdf].config_space,
                              SelectedRegister, o, w)
            /\ (current_address = U32(0, 0) /\ w = 2) =>
                   /\ o = 0 => io.val = <<128, 134>>
                   /\ o = 2 => io.val = <<41, 192>>
            /\ (current_address = U32(0, 0) /\ w = 1) =>
                   io.val = <<<<134>>, <<128>>, <<192>>, <<41>>>>[o + 1]

\* C9 witness: a 4-byte read at 0xCFF (o + w > 4) of the host bridge's
\* register 0 returned 00 00 00 29.
C9_Witness ==
    /\ DataRead
    /\ io.port = PCI_CONFIG_DATA_MAX
    /\ AddressedBdf = 0
    /\ SelectedRegister = 0
    /\ io.val = <<0, 0, 0, 41>>

\* C10: the device a data-window read addresses is the one whose BDF is
\* bits 23:8 of the value written to 0xCF8: with register 0 selected, a
\* 4-byte read of 0xCFC gives 29 c0 80 86 for BDF 0x0000 (after a write of
\* 00 00 00 00), 29 18 80 86 for BDF 0x0008 (after 00 00 08 00), and
\* neither for another BDF.
C10_DeviceByBdf ==
    (DataRead /\ io.port = PCI_CONFIG_DATA /\ Len(io.arg) = 4
        /\ written[4] % 64 = 0) =>
        LET bdf == written[2] * 256 + written[3]
        IN  /\ bdf = AddressedBdf
            /\ bdf = 0 => io.val = <<41, 192, 128, 134>>
            /\ bdf = 8 => io.val = <<41, 24, 128, 134>>
            /\ bdf \notin {0, 8} =>
                   io.val \notin {<<41, 192, 128, 134>>, <<41, 24, 128, 134>>}

\* C10 witness: after a write of 00 00 08 00 to 0xCF8, a 4-byte read of
\* 0xCFC returned 29 18 80 86.
C10_Witness ==
    /\ DataRead
    /\ io.port = PCI_CONFIG_DATA
    /\ written = <<0, 0, 8, 0>>
    /\ io.val = <<41, 24, 128, 134>>

\* C11: when bits 23:8 of current_address name a BDF other than 0x0000 and
\* 0x0008, a read of any port of 0xCFC..=0xCFF with width 1, 2 or 4
\* succeeds and fills the whole buffer with 0xFF, whatever the register
\* byte of the address and the offset of the port.
C11_AbsentDeviceReadsOnes ==
    (DataRead /\ AddressedBdf \notin {0, 8}) =>
        /\ io.result = "Ok"
        /\ Len(io.val) = Len(io.arg)
        /\ \A i \in 1..Len(io.val) : io.val[i] = 255

\* C11 witness: with bus 1, device 0 addressed and a non-zero register
\* byte, a 4-byte read at 0xCFF into a zeroed buffer returned FF FF FF FF.
C11_Witness ==
    /\ DataRead
    /\ io.port = PCI_CONFIG_DATA + 3
    /\ AddressedBdf = 256
    /\ AddrByte(0) # 0
    /\ io.arg = <<0, 0, 0, 0>>
    /\ io.val = <<255, 255, 255, 255>>

\* C12: a write to a port of 0xCFC..=0xCFF, of any width and value,
\* returns Ok and leaves current_address and the device table (every
\* register of every device) as they were, so that every read returns
\* after it what it returned before it.
C12_DataWriteDiscarded ==
    [][(/\ io'.op = "on_port_write"
        /\ io'.port \in PCI_CONFIG_DATA..(PCI_CONFIG_DATA + 3))
       => (/\ io'.result = "Ok"
           /\ current_address' = current_address
           /\ devices' = devices
           /\ \A port \in PciPorts : \A buf \in ReadBuffers :
                  on_port_read(Complex', port, buf) =
                      on_port_read(Complex, port, buf))]_vars

\* C12 witness: a 4-byte write of FF FF FF FF to 0xCFC returned Ok while
\* current_address held a non-zero value.
C12_Witness ==
    /\ io.op = "on_port_write"
    /\ io.port = PCI_CONFIG_DATA
    /\ io.arg = <<255, 255, 255, 255>>
    /\ io.result = "Ok"
    /\ current_address # U32(0, 0)

\* C17: a handler the device does not override fails with NotImplemented
\* and changes neither the payload buffer nor the device: on_mem_read and
\* on_mem_write of the PciRootComplex leave current_address and the device
\* table as they were, and the four handlers of a device that overrides
\* none leave that device as it was.
C17_DefaultHandlersRefuse ==
    [][(io'.op \in {"on_mem_read", "on_mem_write", "dummy_on_port_read",
                    "dummy_on_port_write"})
       => (/\ io'.result = "NotImplemented"
           /\ io'.val = io'.arg
           /\ current_address' = current_address
           /\ devices' = devices
           /\ io'.op \in {"dummy_on_port_read", "dummy_on_port_write"} =>
                  io'.after = io'.self)]_vars

\* C17 witness: on_mem_read of the PciRootComplex was refused with a
\* four-byte buffer of AA while current_address held a non-zero value.
C17_Witness ==
    /\ io.op = "on_mem_read"
    /\ io.result = "NotImplemented"
    /\ io.val = <<170, 170, 170, 170>>
    /\ current_address # U32(0, 0)

\* C18: a port read of the PciRootComplex at a port that is neither 0xCF8
\* nor in 0xCFC..=0xCFF fails with InvalidValue and leaves the read
\* buffer, current_address and the device table as they were.
C18_StrayPortReadRefused ==
    [][(/\ io'.op = "on_port_read"
        /\ io'.port # PCI_CONFIG_ADDRESS
        /\ io'.port \notin PCI_CONFIG_DATA..(PCI_CONFIG_DATA + 3))
       => (/\ io'.result = "InvalidValue"
           /\ io'.val = io'.arg
           /\ current_address' = current_address
           /\ devices' = devices)]_vars

\* C18 witness: a two-byte read at 0xD00 was refused, the buffer still
\* holding AA AA, while current_address held a non-zero value.
C18_Witness ==
    /\ io.op = "on_port_read"
    /\ io.port = PCI_CONFIG_DATA + 4
    /\ io.result = "InvalidValue"
    /\ io.val = <<170, 170>>
    /\ current_address # U32(0, 0)

\* C23: on_port_read of the PciRootComplex, at any port, with any width,
\* succeeding or failing, leaves current_address and the device table as
\* they were; the same read made again, into the same buffer or into the
\* buffer the first read filled, returns the same result and bytes, and
\* so does the same read as the next call.
C23_ReadChangesNothing ==
    [][io'.op = "on_port_read"
       => (/\ current_address' = current_address
           /\ devices' = devices
           /\ on_port_read(Complex', io'.port, io'.arg)
                  = [result |-> io'.result, val |-> io'.val]
           /\ on_port_read(Complex', io'.port, io'.val)
                  = [result |-> io'.result, val |-> io'.val]
           /\ (io.op = "on_port_read" /\ io.port = io'.port
                  /\ Len(io.arg) = Len(io'.arg))
                  => (io'.result = io.result
                      /\ (io.result = "Ok" => io'.val = io.val)))]_vars

\* C23 witness: a four-byte read of 0xCF8 returned 80 00 08 00 while
\* current_address was still 0x0000_0800.
C23_Witness ==
    /\ io.op = "on_port_read"
    /\ io.port = PCI_CONFIG_ADDRESS
    /\ io.val = <<128, 0, 8, 0>>
    /\ current_address = U32(0, 2048)

(***************************************************************************)
(* The conversions of the request values and the comparison of the range   *)
(* keys, applied to inputs drawn from bounded sets.  io records the last   *)
(* application.                                                            *)
(***************************************************************************)
MaxSlice == 5

MaxKey == 3

ByteSamples == {0, 18, 255}

HalfSamples == {0, 1, 4660, 32768, 65535}

U32Samples == {U32(h, l) : h \in HalfSamples, l \in HalfSamples}

\* Every u16, and every PciBdf (bus: u8, device: u5, function: u3).
U16s == 0..65535

PciBdfs == [bus : 0..255, device : 0..31, function : 0..7]

\* One u16 for each value of the high byte, and the u16 values that share
\* the high byte of x.
U16Samples == {257 * k : k \in 0..255}

Page(x) == {(x \div 256) * 256 + low : low \in 0..255}

\* Byte slices of every length up to MaxSlice.
Slices == UNION {[1..n -> {18, 255}] : n \in 0..MaxSlice}

\* The payloads of PortWriteRequest values.
WriteRequests == UNION {[1..w -> ByteSamples] : w \in Widths}

\* The payloads of MemWriteRequest values.
MemWriteRequests ==
    {MemWriteRequest_new(d) : d \in UNION {[1..n -> ByteSamples] : n \in 0..3}}

CopyFromU32(buf, v) ==
    /\ io' = [op |-> "copy_from_u32", arg |-> buf, v |-> v,
              val |-> copy_from_u32(buf, v)]
    /\ UNCHANGED <<current_address, devices, written, map_vars>>

AsU32(req) ==
    /\ io' = [op |-> "as_u32", arg |-> req, val |-> as_u32(req)]
    /\ UNCHANGED <<current_address, devices, written, map_vars>>

TryInto(req, width) ==
    /\ io' = [op |-> "try_into", arg |-> req, width |-> width,
              ret |-> IF width = 1 THEN try_into_u8(req)
                      ELSE IF width = 2 THEN try_into_u16(req)
                      ELSE try_into_u32(req)]
    /\ UNCHANGED <<current_address, devices, written, map_vars>>

MemTryInto(req) ==
    /\ io' = [op |-> "mem_try_into", arg |-> req,
              ret |-> MemWriteRequest_try_into_u8(req)]
    /\ UNCHANGED <<current_address, devices, written, map_vars>>

ReadTryFrom(buff) ==
    /\ io' = [op |-> "read_try_from", arg |-> buff,
              ret |-> PortReadRequest_try_from(buff)]
    /\ UNCHANGED <<current_address, devices, written, map_vars>>

WriteTryFrom(buff) ==
    /\ io' = [op |-> "write_try_from", arg |-> buff,
              ret |-> PortWriteRequest_try_from(buff)]
    /\ UNCHANGED <<current_address, devices, written, map_vars>>

Cmp(K, self, other) ==
    /\ io' = [op |-> "cmp", K |-> K, self |-> self, other |-> other,
              val |-> Ord_cmp(K, self, other)]
    /\ UNCHANGED <<current_address, devices, written, map_vars>>

\* u16 -> PciBdf -> u16
BdfFrom(bytes) ==
    /\ io' = [op |-> "bdf_from", arg |-> bytes, bdf |-> PciBdf_from(bytes),
              val |-> PciBdf_into(PciBdf_from(bytes))]
    /\ UNCHANGED <<current_address, devices, written, map_vars>>

\* PciBdf -> u16 -> PciBdf
BdfInto(bdf) ==
    /\ io' = [op |-> "bdf_into", arg |-> bdf, val |-> PciBdf_into(bdf),
              bdf |-> PciBdf_from(PciBdf_into(bdf))]
    /\ UNCHANGED <<current_address, devices, written, map_vars>>

NextFn ==
    \/ \E bytes \in U16Samples : BdfFrom(bytes)
    \/ \E bytes \in U16Samples : BdfInto(PciBdf_from(bytes))
    \/ \E buf \in ReadBuffers, v \in U32Samples : CopyFromU32(buf, v)
    \/ \E req \in WriteRequests : AsU32(req)
    \/ \E req \in WriteRequests, width \in Widths : TryInto(req, width)
    \/ \E req \in MemWriteRequests : MemTryInto(req)
    \/ \E buff \in Slices : ReadTryFrom(buff)
    \/ \E buff \in Slices : WriteTryFrom(buff)
    \/ \E K \in {"PortIoRegion", "MemIoRegion"} :
           \E self \in Ranges(MaxKey), other \in Ranges(MaxKey) :
               Cmp(K, self, other)

SpecFn == Init /\ [][NextFn]_vars

(***************************************************************************)
(* Properties of the conversions (checked under SpecFn).                   *)
(***************************************************************************)
\* C13: after copy_from_u32(v) on a PortReadRequest of width w, the buffer
\* read big-endian is v mod 2^(8 * w): the last w bytes of the big-endian
\* encoding of v.
C13_CopyFromU32LowBytes ==
    io.op = "copy_from_u32" =>
        LET b == io.val
            w == Len(io.arg)
        IN  /\ Len(b) = w
            /\ \A i \in 1..w : b[i] \in 0..255
            /\ w = 1 => b[1] = io.v.lo % 256
            /\ w = 2 => b[1] * 256 + b[2] = io.v.lo
            /\ w = 4 => /\ b[1] * 256 + b[2] = io.v.hi
                        /\ b[3] * 256 + b[4] = io.v.lo

\* C13 witness: 0x1234_8000 copied into a two-byte buffer that held AA AA
\* left 80 00 in it.
C13_Witness ==
    /\ io.op = "copy_from_u32"
    /\ io.v = U32(4660, 32768)
    /\ io.arg = <<170, 170>>
    /\ io.val = <<128, 0>>

\* C14: as_u32 of the PortWriteRequest over the bytes b (1, 2 or 4 of
\* them) is b read big-endian, zero-extended to 32 bits.
C14_AsU32ZeroExtends ==
    io.op = "as_u32" =>
        LET b == io.arg
        IN  /\ Len(b) = 1 => io.val = U32(0, b[1])
            /\ Len(b) = 2 => io.val = U32(0, b[1] * 256 + b[2])
            /\ Len(b) = 4 =>
                   io.val = U32(b[1] * 256 + b[2], b[3] * 256 + b[4])

\* C14 witness: as_u32 of the two bytes 12 ff gave 0x0000_12ff.
C14_Witness ==
    /\ io.op = "as_u32"
    /\ io.arg = <<18, 255>>
    /\ io.val = U32(0, 4863)

\* C15: narrowing a PortWriteRequest of width w to an integer of w' bytes
\* gives Ok iff w = w', with the bytes read big-endian, and InvalidValue
\* otherwise; narrowing a MemWriteRequest to u8 gives Ok iff its length is
\* 1 (with its one byte), and InvalidValue otherwise.
C15_NarrowingNeedsExactWidth ==
    /\ io.op = "try_into" =>
           LET b == io.arg
           IN  /\ io.ret.result = "Ok" <=> Len(b) = io.width
               /\ io.ret.result # "Ok" => io.ret.result = "InvalidValue"
               /\ io.ret.result = "Ok" =>
                      io.ret.val =
                          IF io.width = 1 THEN b[1]
                          ELSE IF io.width = 2 THEN b[1] * 256 + b[2]
                          ELSE U32(b[1] * 256 + b[2], b[3] * 256 + b[4])
    /\ io.op = "mem_try_into" =>
           /\ io.ret.result = "Ok" <=> Len(io.arg.data) = 1
           /\ io.ret.result # "Ok" => io.ret.result = "InvalidValue"
           /\ io.ret.result = "Ok" => io.ret.val = io.arg.data[1]

\* C15 witness: a four-byte request was refused as a u16.
C15_Witness ==
    /\ io.op = "try_into"
    /\ Len(io.arg) = 4
    /\ io.width = 2
    /\ io.ret.result = "InvalidValue"

\* C16: a PortWriteRequest or a PortReadRequest is made from a byte slice
\* iff the slice has 1, 2 or 4 bytes, and is then the variant of that
\* width over the bytes of the slice; every other length gives
\* InvalidValue.
C16_RequestWidths ==
    io.op \in {"read_try_from", "write_try_from"} =>
        /\ io.ret.result = "Ok" <=> Len(io.arg) \in {1, 2, 4}
        /\ io.ret.result # "Ok" => io.ret.result = "InvalidValue"
        /\ io.ret.result = "Ok" => io.ret.val = io.arg

\* C16 witness: a slice of three bytes was refused as a PortWriteRequest.
C16_Witness ==
    /\ io.op = "write_try_from"
    /\ Len(io.arg) = 3
    /\ io.ret.result = "InvalidValue"

\* Ordering::reverse
Reverse(o) ==
    IF o = "Less" THEN "Greater" ELSE IF o = "Greater" THEN "Less" ELSE o

\* Of x, y and z, any two that differ do not overlap.
PairwiseDisjoint(x, y, z) ==
    /\ x # y => ~Overlap(x, y)
    /\ y # z => ~Overlap(y, z)
    /\ x # z => ~Overlap(x, z)

\* C19: for well-formed ranges [a,b] and [c,d] the comparison of both key
\* types gives Less iff b < c, Greater iff d < a and Equal iff the ranges
\* overlap; cmp(x, y) is the reverse of cmp(y, x); and among ranges that
\* do not overlap one another the comparison is a strict total order:
\* Equal only for the same range, and transitive.
C19_RangeOrder ==
    io.op = "cmp" =>
        LET x == io.self
            y == io.other
            cmp(p, q) == Ord_cmp(io.K, p, q)
        IN  /\ io.val \in {"Less", "Greater", "Equal"}
            /\ io.val = "Less" <=> x.end < y.start
            /\ io.val = "Greater" <=> y.end < x.start
            /\ io.val = "Equal" <=> Overlap(x, y)
            /\ cmp(y, x) = Reverse(io.val)
            /\ (x # y /\ ~Overlap(x, y)) => io.val # "Equal"
            /\ x = y => io.val = "Equal"
            /\ \A z \in Ranges(MaxKey) :
                   PairwiseDisjoint(x, y, z) =>
                       /\ (io.val = "Less" /\ cmp(y, z) = "Less") =>
                              cmp(x, z) = "Less"
                       /\ (io.val = "Equal" /\ cmp(y, z) = "Equal") =>
                              cmp(x, z) = "Equal"

\* C19 witness: the memory ranges 0..=2 and 2..=3, which share one
\* address, compared Equal.
C19_Witness ==
    /\ io.op = "cmp"
    /\ io.K = "MemIoRegion"
    /\ io.self = RangeInclusive(0, 2)
    /\ io.other = RangeInclusive(2, 3)
    /\ io.val = "Equal"

\* The fields of PciBdf::from(x) are the bit fields of x, and the result
\* converts back to x.
BdfOfU16(x) ==
    LET bdf == PciBdf_from(x)
    IN  /\ bdf.bus = x \div 256
        /\ bdf.device = (x % 256) \div 8
        /\ bdf.function = x % 8
        /\ bdf \in PciBdfs
        /\ PciBdf_into(bdf) = x

\* bdf converts to bus[15:8] | device[7:3] | function[2:0], which
\* converts back to bdf.
U16OfBdf(bdf) ==
    LET x == PciBdf_into(bdf)
    IN  /\ x \in U16s
        /\ x = bdf.bus * 256 + bdf.device * 8 + bdf.function
        /\ PciBdf_from(x) = bdf

\* C24: for every u16 x, PciBdf::from(x) has bus = x[15:8], device =
\* x[7:3] and function = x[2:0], and converting it back gives x; every
\* PciBdf is the image of the u16 it converts to, so that the two
\* conversions are inverse bijections.  Each application stands for the
\* 256 values that share its high byte (its bus).
C24_BdfBijection ==
    /\ io.op = "bdf_from" =>
           /\ io.bdf = PciBdf_from(io.arg)
           /\ io.val = io.arg
           /\ \A x \in Page(io.arg) : BdfOfU16(x)
    /\ io.op = "bdf_into" =>
           /\ io.bdf = io.arg
           /\ \A d \in 0..31, f \in 0..7 :
                  U16OfBdf([bus |-> io.arg.bus, device |-> d, function |-> f])

\* C24 witness: 0xABAB became bus 0xAB, device 21, function 3 and came
\* back as 0xABAB.
C24_Witness ==
    /\ io.op = "bdf_from"
    /\ io.arg = 43947
    /\ io.bdf = [bus |-> 171, device |-> 21, function |-> 3]
    /\ io.val = 43947

(***************************************************************************)
(* A DeviceMap that holds a PciRootComplex among other devices.  A port    *)
(* access looks the device up with device_for_mut and calls the handler    *)
(* on the device behind the Rc found (Rc::get_mut_unchecked, mod.rs 96).   *)
(***************************************************************************)
MaxSysCalls == 3

\* The devices registered: a PciRootComplex, a DummyDevice on one port of
\* the PCI data window, a device on the COM1 ports and a memory range, a
\* DummyDevice on CAPACITY + 1 single ports, one more than a node of the
\* map holds, and a DummyDevice on one range that overlaps all but the
\* first of those.
SysDevices ==
    {Box("PciRootComplex", PciRootComplex_new),
     Box("DummyDevice", DummyDevice_new(
         <<RangeInclusive(PCI_CONFIG_DATA, PCI_CONFIG_DATA)>>)),
     EmulatedDevice_declaring(
         <<[tag |-> "PortIo", val |-> RangeInclusive(1016, 1023)],
           [tag |-> "MemIo", val |-> RangeInclusive(0, 4095)]>>),
     Box("DummyDevice", DummyDevice_new(
         [i \in 1..(CAPACITY + 1) |->
             RangeInclusive(2 * (i - 1), 2 * (i - 1))])),
     Box("DummyDevice", DummyDevice_new(
         <<RangeInclusive(1, 2 * CAPACITY)>>))}

SysPorts == {1016, PCI_CONFIG_ADDRESS, PCI_CONFIG_DATA, PCI_CONFIG_DATA + 3}

SysInteractions ==
    {[space |-> "PortIo", at |-> p] : p \in SysPorts \cup {1024}} \cup
    {[space |-> "MemIo", at |-> a] : a \in {0, 4095, 4096}}

SysReadBuffers == {<<170>>, <<0, 0, 0, 0>>}

SysWrites ==
    {<<0, 0, 0, 0>>, <<128, 0, 8, 0>>, <<0, 1, 0, 0>>, <<0, 0, 0, 1>>,
     <<8, 0>>}

SysRegister(boxed) ==
    /\ rc_count < MaxSysCalls
    /\ Register(boxed)
    /\ UNCHANGED pci_vars

\* Mutant: the handler runs on a copy of the device, which is dropped.
SysPortWrite_on_copy(port, val) ==
    LET found == device_for_mut(portio_map, memio_map,
                                [space |-> "PortIo", at |-> port])
    IN  /\ found # None
        /\ LET r == dyn_on_port_write(heap[found.val], port, val)
           IN  /\ heap' = heap
               /\ written' = IF heap[found.val].vtable = "PciRootComplex"
                                /\ port = PCI_CONFIG_ADDRESS
                                /\ r.result = "Ok" /\ Len(val) = 4
                             THEN val ELSE written
               /\ io' = [op |-> "port_write", port |-> port, arg |-> val,
                         dev |-> found.val, result |-> r.result,
                         val |-> val]
        /\ UNCHANGED <<portio_map, memio_map, rc_count, ret, seen, inserted,
                       failures, current_address, devices>>

\* map.device_for_mut(port) and, on the device found, on_port_write
SysPortWrite(port, val) ==
    LET found == device_for_mut(portio_map, memio_map,
                                [space |-> "PortIo", at |-> port])
    IN  /\ found # None
        /\ LET r == dyn_on_port_write(heap[found.val], port, val)
           IN  /\ heap' = [heap EXCEPT ![found.val].obj = r.self]
               /\ written' = IF heap[found.val].vtable = "PciRootComplex"
                                /\ port = PCI_CONFIG_ADDRESS
                                /\ r.result = "Ok" /\ Len(val) = 4
                             THEN val ELSE written
               /\ io' = [op |-> "port_write", port |-> port, arg |-> val,
                         dev |-> found.val, result |-> r.result,
                         val |-> val]
        /\ UNCHANGED <<portio_map, memio_map, rc_count, ret, seen, inserted,
                       failures, current_address, devices>>

\* map.device_for_mut(port) and, on the device found, on_port_read
SysPortRead(port, buf) ==
    LET found == device_for_mut(portio_map, memio_map,
                                [space |-> "PortIo", at |-> port])
    IN  /\ found # None
        /\ LET r == dyn_on_port_read(heap[found.val], port, buf)
           IN  /\ heap' = [heap EXCEPT ![found.val].obj = r.self]
               /\ io' = [op |-> "port_read", port |-> port, arg |-> buf,
                         dev |-> found.val, result |-> r.result,
                         val |-> r.val]
        /\ UNCHANGED <<portio_map, memio_map, rc_count, ret, seen, inserted,
                       failures, current_address, devices, written>>

NextSys ==
    \/ \E boxed \in SysDevices : SysRegister(boxed)
    \/ \E port \in SysPorts, val \in SysWrites : SysPortWrite(port, val)
    \/ \E port \in SysPorts, buf \in SysReadBuffers : SysPortRead(port, buf)

SpecSys == Init /\ [][NextSys]_vars

(***************************************************************************)
(* Properties of the DeviceMap with its devices (checked under SpecSys).   *)
(***************************************************************************)
\* The value current_address takes from the last address write.
WrittenAddress ==
    U32((written[1] % 128) * 256 + written[2], written[3] * 256 + written[4])

\* C21: the keys inserted by a successful register_device call all resolve
\* to the one device instance of that call, which no earlier call stored:
\* each key of the maps leads to an allocation whose device declares that
\* key.  With a PciRootComplex in the map, a read of 0xCFC..=0xCFF through
\* device_for_mut returns what the complex returns for the address last
\* written with four bytes through device_for_mut(0xCF8): 29 18 80 86
\* after 80 00 08 00, 29 c0 80 86 after 00 00 00 00.
C21_SharedInstance ==
    /\ \A tag \in {"PortIo", "MemIo"} : \A e \in Entries(MapOf(tag)) :
           /\ e.dev \in 1..Len(heap)
           /\ \E i \in 1..Len(dyn_services(heap[e.dev])) :
                  dyn_services(heap[e.dev])[i] = [tag |-> tag, val |-> e.key]
    /\ (Registered /\ ret.result = "Ok") =>
           /\ ret.dev = Len(heap)
           /\ \A e \in Entries(ret.before.portio_map)
                         \cup Entries(ret.before.memio_map) :
                  e.dev # ret.dev
           /\ \A i \in 1..Len(ret.services) :
                  \A x \in {ret.services[i].val.start,
                            ret.services[i].val.end} :
                      LET op == [space |-> ret.services[i].tag, at |-> x]
                      IN  /\ device_for_mut(portio_map, memio_map, op)
                                 = Some(ret.dev)
                          /\ device_for(portio_map, memio_map, op)
                                 = Some(ret.dev)
    /\ (io.op = "port_read" /\ heap[io.dev].vtable = "PciRootComplex"
           /\ io.port \in PCI_CONFIG_DATA..(PCI_CONFIG_DATA + 3)) =>
           /\ io.result = "Ok"
           /\ heap[io.dev].obj.current_address = WrittenAddress
           /\ io.val = on_port_read(
                           [current_address |-> WrittenAddress,
                            devices |-> PciRootComplex_new.devices],
                           io.port, io.arg).val
           /\ (io.port = PCI_CONFIG_DATA /\ Len(io.arg) = 4) =>
                  /\ written = <<128, 0, 8, 0>> =>
                         io.val = <<41, 24, 128, 134>>
                  /\ written = <<0, 0, 0, 0>> =>
                         io.val = <<41, 192, 128, 134>>

\* C21 witness: with a second device registered, a four-byte read of 0xCFC
\* returned 29 18 80 86 after 80 00 08 00 was written to 0xCF8.
C21_Witness ==
    /\ io.op = "port_read"
    /\ io.port = PCI_CONFIG_DATA
    /\ written = <<128, 0, 8, 0>>
    /\ io.val = <<41, 24, 128, 134>>
    /\ BTreeMap_len(portio_map) >= 3

\* C22: registrations are permanent.  Whatever the step (a register_device
\* call that succeeds or fails, a handler call), a port or address that
\* device_for resolves to a device resolves to that same device after it,
\* every stored key stays in its map with its device, and no allocation
\* is removed or turned into another device; hence once device_for(p)
\* returns a device, every later device_for(p) returns it.
C22_RegistrationsPermanent ==
    [][/\ \A op \in SysInteractions :
              device_for(portio_map, memio_map, op) # None =>
                  device_for(portio_map', memio_map', op)
                      = device_for(portio_map, memio_map, op)
       /\ Entries(portio_map) \subseteq Entries(portio_map')
       /\ Entries(memio_map) \subseteq Entries(memio_map')
       /\ Len(heap) <= Len(heap')
       /\ \A dev \in 1..Len(heap) : heap'[dev].vtable = heap[dev].vtable
      ]_vars

\* C22 witness: the first device has handled a write, a second
\* register_device call has failed and a third has succeeded, and 0xCF8
\* resolves to the first device.
C22_Witness ==
    /\ Registered
    /\ ret.result = "Ok"
    /\ ret.dev = 3
    /\ ret.before.failures = 1
    /\ io.op = "port_write"
    /\ io.dev = 1
    /\ device_for(portio_map, memio_map,
                  [space |-> "PortIo", at |-> PCI_CONFIG_ADDRESS]) = Some(1)

====
